---------------------------- MODULE Spec2Model ----------------------------
(***************************************************************************)
(* A model of the ncurses render backend of clay                           *)
(* (renderers/ncurses/clay_renderer_ncurses.c) together with the terminal  *)
(* driver calls it makes.  The terminal driver (stdscr) is modelled as a   *)
(* grid of cells, each holding a base glyph and a colour pair number.      *)
(* Pixel quantities are the integer-valued floats of the bounding boxes.   *)
(***************************************************************************)
EXTENDS Integers, Sequences, FiniteSets, TLC

(***************************************************************************)
(* Program constants.                                                      *)
(***************************************************************************)
CLAY_NCURSES_CELL_WIDTH == 8
CLAY_NCURSES_CELL_HEIGHT == 16
MAX_SCISSOR_STACK_DEPTH == 16

\* curses: the failure return code, and the eight standard colours.
ERR == -1
COLOR_BLACK == 0
COLOR_RED == 1
COLOR_GREEN == 2
COLOR_YELLOW == 3
COLOR_BLUE == 4
COLOR_MAGENTA == 5
COLOR_CYAN == 6
COLOR_WHITE == 7

(***************************************************************************)
(* Bounds of the model.  MAX_COLOR_PAIRS_CACHE is the capacity of          *)
(* _colorPairCache (1024 in the source) scaled down so that a full cache   *)
(* is reached; MaxFrames caps the number of Render calls of a run.         *)
(***************************************************************************)
MAX_COLOR_PAIRS_CACHE == 3
MaxFrames == 2
MaxTextLen == 6

(***************************************************************************)
(* Arithmetic helpers.                                                     *)
(***************************************************************************)
Max(a, b) == IF a > b THEN a ELSE b
Min(a, b) == IF a < b THEN a ELSE b

\* (int)(p / d) for a float p holding an integer value: C truncates toward 0.
TruncDiv(p, d) == IF p >= 0 THEN p \div d ELSE -((-p) \div d)

\* The pixel -> cell conversions "(int)(v / CLAY_NCURSES_CELL_WIDTH)".
CellX(px) == TruncDiv(px, CLAY_NCURSES_CELL_WIDTH)
CellY(px) == TruncDiv(px, CLAY_NCURSES_CELL_HEIGHT)

Box(x, y, w, h) == [x |-> x, y |-> y, width |-> w, height |-> h]

(***************************************************************************)
(* Multibyte decoding (UTF-8 locale) and display width.                    *)
(***************************************************************************)
IsCont(b) == b >= 128 /\ b <= 191

\* mbtowc(&wc, ptr, len) on the bytes s from position i (1-based), at most
\* len = Len(s) - i + 1 bytes: the number of bytes consumed (-1 when the
\* sequence is invalid or incomplete, 0 for a NUL byte) and the codepoint.
Mbtowc(s, i) ==
    LET n  == Len(s) - i + 1
        b0 == s[i]
    IN  IF b0 = 0 THEN [bytes |-> 0, wc |-> 0]
        ELSE IF b0 < 128 THEN [bytes |-> 1, wc |-> b0]
        ELSE IF b0 >= 194 /\ b0 <= 223 THEN
            IF n >= 2 /\ IsCont(s[i+1])
            THEN [bytes |-> 2, wc |-> (b0 % 32) * 64 + (s[i+1] % 64)]
            ELSE [bytes |-> -1, wc |-> 0]
        ELSE IF b0 >= 224 /\ b0 <= 239 THEN
            IF n >= 3 /\ IsCont(s[i+1]) /\ IsCont(s[i+2])
               /\ (b0 = 224 => s[i+1] >= 160)
               /\ (b0 = 237 => s[i+1] <= 159)
            THEN [bytes |-> 3,
                  wc |-> (b0 % 16) * 4096 + (s[i+1] % 64) * 64 + (s[i+2] % 64)]
            ELSE [bytes |-> -1, wc |-> 0]
        ELSE IF b0 >= 240 /\ b0 <= 244 THEN
            IF n >= 4 /\ IsCont(s[i+1]) /\ IsCont(s[i+2]) /\ IsCont(s[i+3])
               /\ (b0 = 240 => s[i+1] >= 144)
               /\ (b0 = 244 => s[i+1] <= 143)
            THEN [bytes |-> 4,
                  wc |-> (b0 % 8) * 262144 + (s[i+1] % 64) * 4096
                         + (s[i+2] % 64) * 64 + (s[i+3] % 64)]
            ELSE [bytes |-> -1, wc |-> 0]
        ELSE [bytes |-> -1, wc |-> 0]

\* wcwidth(wc): -1 for control characters, 0 for NUL and combining marks,
\* 2 for East-Asian wide characters, 1 otherwise.
Wcwidth(wc) ==
    IF wc = 0 THEN 0
    ELSE IF wc < 32 \/ (wc >= 127 /\ wc < 160) THEN -1
    ELSE IF (wc >= 768 /\ wc <= 879) \/ (wc >= 8203 /\ wc <= 8207) THEN 0
    ELSE IF \/ (wc >= 4352 /\ wc <= 4447)
            \/ (wc >= 11904 /\ wc <= 42191)
            \/ (wc >= 44032 /\ wc <= 55203)
            \/ (wc >= 63744 /\ wc <= 64255)
            \/ (wc >= 65072 /\ wc <= 65135)
            \/ (wc >= 65280 /\ wc <= 65376)
            \/ (wc >= 65504 /\ wc <= 65510)
         THEN 2
    ELSE 1

\* Clay_Ncurses_MeasureStringWidth: the while loop from byte position i on.
RECURSIVE MeasureFrom(_, _)
MeasureFrom(s, i) ==
    IF i > Len(s) THEN 0
    ELSE LET r == Mbtowc(s, i)
         IN  IF r.bytes <= 0 THEN MeasureFrom(s, i + 1)
             ELSE (IF Wcwidth(r.wc) > 0 THEN Wcwidth(r.wc) ELSE 0)
                  + MeasureFrom(s, i + r.bytes)

\* A variant of the measuring loop that stops at the first byte sequence it
\* cannot decode, as mbstowcs does.
RECURSIVE MeasureFrom_StopAtError(_, _)
MeasureFrom_StopAtError(s, i) ==
    IF i > Len(s) THEN 0
    ELSE LET r == Mbtowc(s, i)
         IN  IF r.bytes <= 0 THEN 0
             ELSE (IF Wcwidth(r.wc) > 0 THEN Wcwidth(r.wc) ELSE 0)
                  + MeasureFrom_StopAtError(s, i + r.bytes)

MeasureStringWidth_StopAtError(text) == MeasureFrom_StopAtError(text, 1)

Clay_Ncurses_MeasureStringWidth(text) == MeasureFrom(text, 1)

\* The byte positions at which the measuring loop calls mbtowc, from i on.
RECURSIVE DecodeStarts(_, _)
DecodeStarts(s, i) ==
    IF i > Len(s) THEN {}
    ELSE {i} \cup DecodeStarts(s, i + (IF Mbtowc(s, i).bytes <= 0 THEN 1
                                       ELSE Mbtowc(s, i).bytes))

\* mbstowcs(wbuf, tempC, maxLen) of the NUL-terminated copy of the text: the
\* wide characters up to the first NUL byte, or failure (wlen = -1) at the
\* first invalid sequence.
RECURSIVE MbstowcsFrom(_, _)
MbstowcsFrom(s, i) ==
    IF i > Len(s) THEN [ok |-> TRUE, w |-> <<>>]
    ELSE LET r == Mbtowc(s, i)
         IN  IF r.bytes = 0 THEN [ok |-> TRUE, w |-> <<>>]
             ELSE IF r.bytes < 0 THEN [ok |-> FALSE, w |-> <<>>]
             ELSE LET rest == MbstowcsFrom(s, i + r.bytes)
                  IN  [ok |-> rest.ok, w |-> <<r.wc>> \o rest.w]

Mbstowcs(text) == MbstowcsFrom(text, 1)

(***************************************************************************)
(* State.                                                                  *)
(***************************************************************************)
VARIABLES
    \* --- renderer globals (clay_renderer_ncurses.c:25-42)
    _clayNcursesScreenWidth,
    _clayNcursesScreenHeight,
    _clayNcursesInitialized,
    _scissorStack,          \* array [0 .. MAX_SCISSOR_STACK_DEPTH-1] of boxes
    _scissorStackIndex,
    _colorPairCache,        \* array [0 .. MAX_COLOR_PAIRS_CACHE-1] of entries
    _colorPairCacheSize,
    \* --- terminal driver
    termW, termH,           \* size of the terminal (getmaxyx of stdscr)
    termMode,               \* "cooked" | "raw"
    COLORS,                 \* colours the terminal supports
    stdscr,                 \* <<row, col>> -> [ch, pair]
    colorPairs,             \* pair id -> <<fg, bg>>, as set by init_pair
    \* --- host loop and the Render call in progress
    pc,                     \* "idle" | "loop" (inside Render's for loop)
    renderCommands,         \* the command array handed to Render
    i,                      \* Render's loop index (0-based)
    prevCommands,           \* array of the previous Render call, <<>> if none
    sameAsPrev,             \* this Render repeats the previous one undisturbed
    \* --- observation of what the calls did
    frames,                 \* Render calls started while initialized
    stepWrites,             \* cell writes of the command processed last
    stepReads,              \* cells read by the command processed last
    stepClip,               \* cell-space clip on top when it was processed
    frameWrites,            \* number of cell writes of the current frame
    flushes,                \* refresh() calls of the current Render
    initPairCalls,          \* init_pair calls of the process
    pairReturns,            \* <<fg, bg, id>> returned by GetColorPair so far
    lastPairCall,           \* the GetColorPair call of the last command, or <<>>
    activeAt,               \* depth -> clip entry active when the depth was last current
    entryDepth,             \* _scissorStackIndex on entry to the current Render
    lastCall,               \* the API call made last: name, Active on entry, driver calls
    \* --- the text measurement callback
    measureArg,             \* bytes of the text measured last
    measureRet              \* the Clay_Dimensions returned for it

vars == << _clayNcursesScreenWidth, _clayNcursesScreenHeight,
           _clayNcursesInitialized, _scissorStack, _scissorStackIndex,
           _colorPairCache, _colorPairCacheSize,
           termW, termH, termMode, COLORS, stdscr, colorPairs,
           pc, renderCommands, i, prevCommands, sameAsPrev,
           frames, stepWrites, stepReads, stepClip, frameWrites,
           flushes, initPairCalls, pairReturns, lastPairCall, activeAt,
           entryDepth, lastCall, measureArg, measureRet >>

measureVars == << measureArg, measureRet >>

rendererVars == << _clayNcursesScreenWidth, _clayNcursesScreenHeight,
                   _clayNcursesInitialized, _scissorStack, _scissorStackIndex,
                   _colorPairCache, _colorPairCacheSize >>

(***************************************************************************)
(* Clip stack helpers.                                                     *)
(***************************************************************************)
\* The full-screen entry written to _scissorStack[0].
FullScreenBox(w, h) ==
    Box(0, 0, w * CLAY_NCURSES_CELL_WIDTH, h * CLAY_NCURSES_CELL_HEIGHT)

\* A pixel box converted to cell coordinates, each field on its own.
CellRect(b) == [x |-> CellX(b.x), y |-> CellY(b.y),
                w |-> CellX(b.width), h |-> CellY(b.height)]

\* A variant of the intersection test that rejects only negative extents.
IntersectWith_Touching(clip, x, y, w, h) ==
    LET cx == CellX(clip.x)
        cy == CellY(clip.y)
        cw == CellX(clip.width)
        ch == CellY(clip.height)
        ix == IF x > cx THEN x ELSE cx
        iy == IF y > cy THEN y ELSE cy
        right  == IF x + w < cx + cw THEN x + w ELSE cx + cw
        bottom == IF y + h < cy + ch THEN y + h ELSE cy + ch
        iw == right - ix
        ih == bottom - iy
    IN  IF iw < 0 \/ ih < 0
        THEN [found |-> FALSE, x |-> 0, y |-> 0, w |-> 0, h |-> 0]
        ELSE [found |-> TRUE, x |-> ix, y |-> iy, w |-> iw, h |-> ih]

\* Clay_Ncurses_IntersectScissor against the entry "clip".
IntersectWith(clip, x, y, w, h) ==
    LET cx == CellX(clip.x)
        cy == CellY(clip.y)
        cw == CellX(clip.width)
        ch == CellY(clip.height)
        ix == IF x > cx THEN x ELSE cx
        iy == IF y > cy THEN y ELSE cy
        right  == IF x + w < cx + cw THEN x + w ELSE cx + cw
        bottom == IF y + h < cy + ch THEN y + h ELSE cy + ch
        iw == right - ix
        ih == bottom - iy
    IN  IF iw <= 0 \/ ih <= 0
        THEN [found |-> FALSE, x |-> 0, y |-> 0, w |-> 0, h |-> 0]
        ELSE [found |-> TRUE, x |-> ix, y |-> iy, w |-> iw, h |-> ih]

Clay_Ncurses_IntersectScissor(x, y, w, h) ==
    IntersectWith(_scissorStack[_scissorStackIndex], x, y, w, h)

\* A variant of the pushed entry that keeps the extent of "next" instead of
\* clamping its right and bottom edges.
ScissorIntersect_KeepExtent(current, next) ==
    LET nX == IF next.x > current.x THEN next.x ELSE current.x
        nY == IF next.y > current.y THEN next.y ELSE current.y
    IN  Box(nX, nY, next.width, next.height)

\* The body of the SCISSOR_START case: the entry pushed on top of "current".
ScissorIntersect(current, next) ==
    LET nX == IF next.x > current.x THEN next.x ELSE current.x
        nY == IF next.y > current.y THEN next.y ELSE current.y
        nR == IF next.x + next.width < current.x + current.width
              THEN next.x + next.width ELSE current.x + current.width
        nB == IF next.y + next.height < current.y + current.height
              THEN next.y + next.height ELSE current.y + current.height
    IN  Box(nX, nY, nR - nX, nB - nY)

(***************************************************************************)
(* Colours.                                                                *)
(***************************************************************************)
\* Clay_Ncurses_MatchColor for a terminal with "colors" colours.
Clay_Ncurses_MatchColor(color, colors) ==
    IF colors < 256 THEN
        LET r == color.r > 128
            g == color.g > 128
            b == color.b > 128
        IN  IF r /\ g /\ b THEN COLOR_WHITE
            ELSE IF ~r /\ ~g /\ ~b THEN COLOR_BLACK
            ELSE IF r /\ g THEN COLOR_YELLOW
            ELSE IF r /\ b THEN COLOR_MAGENTA
            ELSE IF g /\ b THEN COLOR_CYAN
            ELSE IF r THEN COLOR_RED
            ELSE IF g THEN COLOR_GREEN
            ELSE IF b THEN COLOR_BLUE
            ELSE COLOR_WHITE
    ELSE
        LET r == (color.r * 5) \div 255
            g == (color.g * 5) \div 255
            b == (color.b * 5) \div 255
        IN  16 + (36 * r) + (6 * g) + b

Clay_Ncurses_GetColorId(color) == Clay_Ncurses_MatchColor(color, COLORS)

\* The cache lookup loop of Clay_Ncurses_GetColorPair: the least index whose
\* entry matches, or -1.
CacheFind(cache, size, fg, bg) ==
    LET hits == {k \in 0 .. size - 1 : cache[k].fg = fg /\ cache[k].bg = bg}
    IN  IF hits = {} THEN -1
        ELSE CHOOSE k \in hits : \A m \in hits : k <= m

\* Variants of Clay_Ncurses_GetColorPair with one plausible slip each.
\* (a) the lookup loop is missing: every call allocates.
GetColorPair_NoLookup(cache, size, fg, bg) ==
    IF size >= MAX_COLOR_PAIRS_CACHE
    THEN [id |-> 0, cache |-> cache, size |-> size, registered |-> FALSE]
    ELSE [id |-> size + 1,
          cache |-> [cache EXCEPT
                        ![size] = [fg |-> fg, bg |-> bg, pairId |-> size + 1]],
          size |-> size + 1,
          registered |-> TRUE]

\* (b) the capacity test is "size > MAX" instead of "size >= MAX".
GetColorPair_OffByOne(cache, size, fg, bg) ==
    LET k == CacheFind(cache, size, fg, bg)
    IN  IF k >= 0
        THEN [id |-> cache[k].pairId, cache |-> cache, size |-> size,
              registered |-> FALSE]
        ELSE IF size > MAX_COLOR_PAIRS_CACHE
        THEN [id |-> 0, cache |-> cache, size |-> size, registered |-> FALSE]
        ELSE [id |-> size + 1,
              cache |-> [q \in DOMAIN cache \cup {size} |->
                           IF q = size
                           THEN [fg |-> fg, bg |-> bg, pairId |-> size + 1]
                           ELSE cache[q]],
              size |-> size + 1,
              registered |-> TRUE]

\* (c) a full cache evicts its oldest entry and reuses that entry's id.
GetColorPair_Evict(cache, size, fg, bg) ==
    LET k == CacheFind(cache, size, fg, bg)
    IN  IF k >= 0
        THEN [id |-> cache[k].pairId, cache |-> cache, size |-> size,
              registered |-> FALSE]
        ELSE IF size >= MAX_COLOR_PAIRS_CACHE
        THEN [id |-> cache[0].pairId,
              cache |-> [cache EXCEPT ![0] = [fg |-> fg, bg |-> bg,
                                              pairId |-> cache[0].pairId]],
              size |-> size,
              registered |-> TRUE]
        ELSE [id |-> size + 1,
              cache |-> [cache EXCEPT
                            ![size] = [fg |-> fg, bg |-> bg, pairId |-> size + 1]],
              size |-> size + 1,
              registered |-> TRUE]

\* (d) a full cache answers with the last pair instead of the default.
GetColorPair_ReturnLast(cache, size, fg, bg) ==
    LET k == CacheFind(cache, size, fg, bg)
    IN  IF k >= 0
        THEN [id |-> cache[k].pairId, cache |-> cache, size |-> size,
              registered |-> FALSE]
        ELSE IF size >= MAX_COLOR_PAIRS_CACHE
        THEN [id |-> cache[size - 1].pairId, cache |-> cache, size |-> size,
              registered |-> FALSE]
        ELSE [id |-> size + 1,
              cache |-> [cache EXCEPT
                            ![size] = [fg |-> fg, bg |-> bg, pairId |-> size + 1]],
              size |-> size + 1,
              registered |-> TRUE]

\* Clay_Ncurses_GetColorPair(fg, bg) on the cache (cache, size): the id it
\* returns, the cache afterwards and whether init_pair was called.
Clay_Ncurses_GetColorPair(cache, size, fg, bg) ==
    LET k == CacheFind(cache, size, fg, bg)
    IN  IF k >= 0
        THEN [id |-> cache[k].pairId, cache |-> cache, size |-> size,
              registered |-> FALSE]
        ELSE IF size >= MAX_COLOR_PAIRS_CACHE
        THEN [id |-> 0, cache |-> cache, size |-> size, registered |-> FALSE]
        ELSE LET newId == size + 1
             IN  [id |-> newId,
                  cache |-> [cache EXCEPT
                                ![size] = [fg |-> fg, bg |-> bg, pairId |-> newId]],
                  size |-> size + 1,
                  registered |-> TRUE]

(***************************************************************************)
(* Terminal driver: the cells of stdscr.                                   *)
(***************************************************************************)
SPACE == 32
WIDE_EXT == -1          \* second column of a wide glyph

BlankCell == [ch |-> SPACE, pair |-> 0]
Cells(w, h) == {<<r, c>> : r \in 0 .. h - 1, c \in 0 .. w - 1}
BlankScreen(w, h) == [p \in Cells(w, h) |-> BlankCell]

\* pair_content(pair, &fg, &bg): pair 0 is the default pair (-1, -1) after
\* use_default_colors(); a pair never initialised reads as (0, 0).
PairContent(pairs, p) ==
    IF p = 0 THEN <<-1, -1>>
    ELSE IF p \in DOMAIN pairs THEN pairs[p]
    ELSE <<0, 0>>

\* A variant of GetBackgroundAt that answers the default background.
GetBackgroundAt_Default(scr, pairs, x, y) == -1

\* Clay_Ncurses_GetBackgroundAt(x, y) on the screen scr.
Clay_Ncurses_GetBackgroundAt(scr, pairs, x, y) ==
    PairContent(pairs, scr[<<y, x>>].pair)[2]

(***************************************************************************)
(* Cell operations of one command.  A command is executed as a sequence   *)
(* of driver calls on the evolving screen:                                 *)
(*   "read"  mvinch / mvin_wch / mvin_wchnstr of a cell, nothing written;  *)
(*   "both"  read the cell, write it unless glyph and pair both match;     *)
(*   "glyph" read the cell, write it unless the glyph matches;             *)
(*   "none"  write the cell without reading it.                            *)
(* A call addressing a cell outside stdscr fails (ERR) and does nothing.   *)
(* Writing one column of a wide glyph leaves its other column as it is     *)
(* (the driver's own repair of split wide glyphs is not modelled).         *)
(***************************************************************************)
Op(kind, row, col, ch, pair) ==
    [kind |-> kind, row |-> row, col |-> col, ch |-> ch, pair |-> pair]

\* One driver call o on the screen, reads and writes so far.
ApplyOp(o, st) ==
    LET p == <<o.row, o.col>>
    IN  IF p \notin DOMAIN st.scr THEN st
        ELSE IF o.kind = "read"
        THEN [st EXCEPT !.reads = st.reads \cup {p}]
        ELSE
          LET cur == st.scr[p]
              same == IF o.kind = "both"
                        THEN cur.ch = o.ch /\ cur.pair = o.pair
                      ELSE IF o.kind = "glyph" THEN cur.ch = o.ch
                      ELSE FALSE
              rd == IF o.kind = "none" THEN st.reads ELSE st.reads \cup {p}
              wr == [row |-> o.row, col |-> o.col, ch |-> o.ch,
                     pair |-> o.pair, read |-> p \in rd,
                     oldCh |-> cur.ch, oldPair |-> cur.pair]
          IN  IF same THEN [st EXCEPT !.reads = rd]
              ELSE [scr |-> [st.scr EXCEPT ![p] = [ch |-> o.ch, pair |-> o.pair]],
                    reads |-> rd,
                    writes |-> Append(st.writes, wr)]

\* The calls ops[lo .. hi] in order: the first half is carried out, and
\* the second half starts from the screen it leaves.
RECURSIVE RunRange(_, _, _, _)
RunRange(ops, lo, hi, st) ==
    IF lo > hi THEN st
    ELSE IF lo = hi THEN ApplyOp(ops[lo], st)
    ELSE LET mid  == (lo + hi) \div 2
             left == RunRange(ops, lo, mid, st)
         IN  IF Len(left.writes) >= Len(st.writes)
             THEN RunRange(ops, mid + 1, hi, left)
             ELSE left

\* All calls of one command, in order, on the screen scr.
RunOps(ops, scr) ==
    RunRange(ops, 1, Len(ops), [scr |-> scr, reads |-> {}, writes |-> <<>>])

(***************************************************************************)
(* RECTANGLE (clay_renderer_ncurses.c:141-164).                            *)
(***************************************************************************)
NoDraw == [ops |-> <<>>, call |-> <<>>, found |-> FALSE]

\* Lines 149-163: the fill of the clipped rectangle d in colour fg.
RectangleFill(d, fg) ==
    LET bg == fg
        pair == Clay_Ncurses_GetColorPair(_colorPairCache,
                                          _colorPairCacheSize, fg, bg).id
    IN  [ops |-> [k \in 1 .. d.w * d.h |->
                    Op("both", d.y + ((k - 1) \div d.w),
                       d.x + ((k - 1) % d.w), SPACE, pair)],
         call |-> <<[fg |-> fg, bg |-> bg]>>,
         found |-> TRUE]

\* Line 147: nothing is drawn when the intersection d is empty.
RectangleClipped(cmd, d) ==
    IF ~d.found THEN NoDraw
    ELSE RectangleFill(d, Clay_Ncurses_GetColorId(cmd.color))

RectangleCase(cmd) ==
    RectangleClipped(cmd,
        Clay_Ncurses_IntersectScissor(CellX(cmd.boundingBox.x),
                                      CellY(cmd.boundingBox.y),
                                      CellX(cmd.boundingBox.width),
                                      CellY(cmd.boundingBox.height)))

(***************************************************************************)
(* TEXT (clay_renderer_ncurses.c:165-276).                                 *)
(***************************************************************************)
\* The second loop over wbuf (lines 211-229) from index k (0-based) on.
\* A variant of the clip loop that also takes a codepoint which starts
\* before the window and reaches into it.
RECURSIVE ClipLoop_Overlap(_, _, _, _, _, _, _)
ClipLoop_Overlap(wbuf, k, col, printStart, printLen, skipCols, takeCols) ==
    IF k >= Len(wbuf) THEN [printStart |-> printStart, printLen |-> printLen]
    ELSE
      LET cw0 == Wcwidth(wbuf[k + 1])
          cw  == IF cw0 < 0 THEN 0 ELSE cw0
          in  == col + cw > skipCols /\ col < skipCols + takeCols
          ps  == IF in /\ printStart = -1 THEN k ELSE printStart
          pl  == IF in THEN printLen + 1 ELSE printLen
          col2 == col + cw
      IN  IF col2 >= skipCols + takeCols
          THEN [printStart |-> ps, printLen |-> pl]
          ELSE ClipLoop_Overlap(wbuf, k + 1, col2, ps, pl, skipCols, takeCols)

RECURSIVE ClipLoop(_, _, _, _, _, _, _)
ClipLoop(wbuf, k, col, printStart, printLen, skipCols, takeCols) ==
    IF k >= Len(wbuf) THEN [printStart |-> printStart, printLen |-> printLen]
    ELSE
      LET cw0 == Wcwidth(wbuf[k + 1])
          cw  == IF cw0 < 0 THEN 0 ELSE cw0
          in  == col >= skipCols /\ col < skipCols + takeCols
          ps  == IF in /\ printStart = -1 THEN k ELSE printStart
          pl  == IF in THEN printLen + 1 ELSE printLen
          col2 == col + cw
      IN  IF col2 >= skipCols + takeCols
          THEN [printStart |-> ps, printLen |-> pl]
          ELSE ClipLoop(wbuf, k + 1, col2, ps, pl, skipCols, takeCols)

\* mvin_wchnstr(dy, dx, screenChars, printLen): OK (0) when the cursor can be
\* moved to (dy, dx), ERR otherwise; it never returns a count.
Mvin_wchnstr(scr, dy, dx) == IF <<dy, dx>> \in DOMAIN scr THEN 0 ELSE ERR

\* The cells mvin_wchnstr reads: at most n, up to the right margin.
WchnstrReads(dy, dx, n, W) ==
    [k \in 1 .. Min(n, W - dx) |-> Op("read", dy, dx + k - 1, 0, 0)]

\* The comparison loop of lines 240-258: some cell read differs in glyph or
\* pair from the text to print (cells past the margin cannot be decoded).
ScreenDiffers(scr, dy, dx, glyphs, pair) ==
    \E k \in 1 .. Len(glyphs) :
        \/ <<dy, dx + k - 1>> \notin DOMAIN scr
        \/ scr[<<dy, dx + k - 1>>].ch # glyphs[k]
        \/ scr[<<dy, dx + k - 1>>].pair # pair

\* The dirty flag of lines 234-259.
TextDirty(scr, dy, dx, glyphs, pair) ==
    LET printLen == Len(glyphs)
        rc == Mvin_wchnstr(scr, dy, dx)
        readCount == IF rc = ERR THEN 0 ELSE rc
    IN  IF readCount < printLen THEN TRUE
        ELSE ScreenDiffers(scr, dy, dx, glyphs, pair)

\* mvaddnwstr(r, c, glyphs, n) in the colour pair set by attron: a glyph of
\* width 1 fills one cell, a wide glyph two (a wide glyph that does not fit
\* before the right margin leaves a blank and wraps), a zero-width glyph
\* joins the cell before it; output stops at the end of the last line.
RECURSIVE AddWStr(_, _, _, _, _, _, _)
AddWStr(glyphs, k, r, c, pair, W, H) ==
    IF k > Len(glyphs) \/ r >= H \/ r < 0 THEN <<>>
    ELSE
      LET g  == glyphs[k]
          cw == Wcwidth(g)
      IN  IF cw <= 0 THEN AddWStr(glyphs, k + 1, r, c, pair, W, H)
          ELSE IF cw = 1 THEN
            <<Op("none", r, c, g, pair)>>
            \o (IF c + 1 < W THEN AddWStr(glyphs, k + 1, r, c + 1, pair, W, H)
                ELSE AddWStr(glyphs, k + 1, r + 1, 0, pair, W, H))
          ELSE IF c + 1 >= W THEN
            <<Op("none", r, c, SPACE, pair)>>
            \o (IF r + 1 >= H THEN <<>>
                ELSE AddWStr(glyphs, k, r + 1, 0, pair, W, H))
          ELSE
            <<Op("none", r, c, g, pair), Op("none", r, c + 1, WIDE_EXT, pair)>>
            \o (IF c + 2 < W THEN AddWStr(glyphs, k + 1, r, c + 2, pair, W, H)
                ELSE AddWStr(glyphs, k + 1, r + 1, 0, pair, W, H))

\* Lines 231-264: the dirty check and the print of the selected glyphs at
\* (dy, dx) in the colour pair.
TextPrint(dy, dx, glyphs, pair) ==
    WchnstrReads(dy, dx, Len(glyphs), termW)
    \o (IF TextDirty(stdscr, dy, dx, glyphs, pair)
        THEN AddWStr(glyphs, 1, dy, dx, pair, termW, termH)
        ELSE <<>>)

\* Lines 180-273 for the clipped run d: wide is the result of mbstowcs, sel
\* the window chosen by the clip loop.
TextDraw(d, fg, bg, wide, sel) ==
    [ops |->
       <<Op("read", d.y, d.x, 0, 0)>>
       \o (IF ~wide.ok \/ sel.printStart = -1 THEN <<>>
           ELSE TextPrint(d.y, d.x,
                          SubSeq(wide.w, sel.printStart + 1,
                                 sel.printStart + sel.printLen),
                          Clay_Ncurses_GetColorPair(_colorPairCache,
                              _colorPairCacheSize, fg, bg).id)),
     call |-> <<[fg |-> fg, bg |-> bg]>>,
     found |-> TRUE]

\* Lines 173-229: colours, conversion to wide characters and the clip loop
\* with skipCols = d.x - x and takeCols = d.w.
TextConverted(x, d, fg, bg, wide) ==
    TextDraw(d, fg, bg, wide, ClipLoop(wide.w, 0, 0, -1, 0, d.x - x, d.w))

\* Line 171: nothing is drawn when the intersection d is empty.
TextClipped(cmd, x, d) ==
    IF ~d.found THEN NoDraw
    ELSE TextConverted(x, d, Clay_Ncurses_GetColorId(cmd.color),
             Clay_Ncurses_GetBackgroundAt(stdscr, colorPairs, d.x, d.y),
             Mbstowcs(cmd.text))

TextCase(cmd) ==
    TextClipped(cmd, CellX(cmd.boundingBox.x),
        Clay_Ncurses_IntersectScissor(CellX(cmd.boundingBox.x),
            CellY(cmd.boundingBox.y),
            Clay_Ncurses_MeasureStringWidth(cmd.text), 1))

(***************************************************************************)
(* BORDER (clay_renderer_ncurses.c:277-361).                               *)
(***************************************************************************)
GLYPH_HLINE == 9472         \* U+2500
GLYPH_VLINE == 9474         \* U+2502
GLYPH_TL_SQUARE == 9484     \* U+250C
GLYPH_TR_SQUARE == 9488     \* U+2510
GLYPH_BL_SQUARE == 9492     \* U+2514
GLYPH_BR_SQUARE == 9496     \* U+2518
GLYPH_TL_ROUND == 9581      \* U+256D
GLYPH_TR_ROUND == 9582      \* U+256E
GLYPH_BR_ROUND == 9583      \* U+256F
GLYPH_BL_ROUND == 9584      \* U+2570

\* "for (i = lo; i < hi; i++) { mvin_wch; if (differs) mvprintw }" along a row.
RowSegment(row, lo, hi, ch, pair) ==
    IF hi <= lo THEN <<>>
    ELSE [k \in 1 .. hi - lo |-> Op("glyph", row, lo + k - 1, ch, pair)]

\* The same along a column.
ColSegment(col, lo, hi, ch, pair) ==
    IF hi <= lo THEN <<>>
    ELSE [k \in 1 .. hi - lo |-> Op("glyph", lo + k - 1, col, ch, pair)]

\* A variant of the corner that is printed whenever the border is drawn.
Corner_Unclipped(inside, row, col, radius, round, square, pair) ==
    <<Op("none", row, col, IF radius > 0 THEN round ELSE square, pair)>>

\* One corner: printed whenever its cell is inside the clipped box.
Corner(inside, row, col, radius, round, square, pair) ==
    IF inside
    THEN <<Op("none", row, col, IF radius > 0 THEN round ELSE square, pair)>>
    ELSE <<>>

\* Lines 286-359: the sides and corners of the box (x, y, w, h) clipped to
\* (dx, dy, dw, dh), drawn in the colour pair.
BorderDraw(x, y, w, h, dx, dy, dw, dh, r, color, bg, pair) ==
    LET topIn    == y >= dy /\ y < dy + dh
        bottomIn == y + h - 1 >= dy /\ y + h - 1 < dy + dh
        leftIn   == x >= dx /\ x < dx + dw
        rightIn  == x + w - 1 >= dx /\ x + w - 1 < dx + dw
        sx == x + 1
        sw == w - 2
        lx == IF sx > dx THEN sx ELSE dx
        rx == IF sx + sw < dx + dw THEN sx + sw ELSE dx + dw
        sy == y + 1
        sh == h - 2
        ty == IF sy > dy THEN sy ELSE dy
        by == IF sy + sh < dy + dh THEN sy + sh ELSE dy + dh
    IN  [ops |->
           <<Op("read", dy, dx, 0, 0)>>
           \o (IF topIn THEN RowSegment(y, lx, rx, GLYPH_HLINE, pair)
               ELSE <<>>)
           \o (IF bottomIn
               THEN RowSegment(y + h - 1, lx, rx, GLYPH_HLINE, pair)
               ELSE <<>>)
           \o (IF leftIn THEN ColSegment(x, ty, by, GLYPH_VLINE, pair)
               ELSE <<>>)
           \o (IF rightIn
               THEN ColSegment(x + w - 1, ty, by, GLYPH_VLINE, pair)
               ELSE <<>>)
           \o Corner(leftIn /\ topIn, y, x, r.topLeft,
                     GLYPH_TL_ROUND, GLYPH_TL_SQUARE, pair)
           \o Corner(rightIn /\ topIn, y, x + w - 1, r.topRight,
                     GLYPH_TR_ROUND, GLYPH_TR_SQUARE, pair)
           \o Corner(leftIn /\ bottomIn, y + h - 1, x, r.bottomLeft,
                     GLYPH_BL_ROUND, GLYPH_BL_SQUARE, pair)
           \o Corner(rightIn /\ bottomIn, y + h - 1, x + w - 1,
                     r.bottomRight, GLYPH_BR_ROUND, GLYPH_BR_SQUARE, pair),
         call |-> <<[fg |-> color, bg |-> bg]>>,
         found |-> TRUE]

\* Lines 288-290: the colour pair of the border.
BorderColoured(x, y, w, h, d, r, color, bg) ==
    BorderDraw(x, y, w, h, d.x, d.y, d.w, d.h, r, color, bg,
               Clay_Ncurses_GetColorPair(_colorPairCache,
                                         _colorPairCacheSize, color, bg).id)

\* Line 284: nothing is drawn when the intersection d is empty.
BorderClipped(cmd, x, y, w, h, d) ==
    IF ~d.found THEN NoDraw
    ELSE BorderColoured(x, y, w, h, d, cmd.cornerRadius,
             Clay_Ncurses_GetColorId(cmd.color),
             Clay_Ncurses_GetBackgroundAt(stdscr, colorPairs, d.x, d.y))

BorderCase(cmd) ==
    BorderClipped(cmd, CellX(cmd.boundingBox.x), CellY(cmd.boundingBox.y),
        CellX(cmd.boundingBox.width), CellY(cmd.boundingBox.height),
        Clay_Ncurses_IntersectScissor(CellX(cmd.boundingBox.x),
            CellY(cmd.boundingBox.y), CellX(cmd.boundingBox.width),
            CellY(cmd.boundingBox.height)))

(***************************************************************************)
(* SCISSOR_START / SCISSOR_END (clay_renderer_ncurses.c:362-383).          *)
(***************************************************************************)
\* A variant of SCISSOR_START that stores the intersection before it
\* increments the index, so it also overwrites the entry it narrows.
ScissorStartCase_Overwrite(stack, index, next) ==
    IF index < MAX_SCISSOR_STACK_DEPTH - 1
    THEN [stack |-> [stack EXCEPT
                        ![index] = ScissorIntersect(stack[index], next),
                        ![index + 1] = ScissorIntersect(stack[index], next)],
          index |-> index + 1]
    ELSE [stack |-> stack, index |-> index]

\* A variant of SCISSOR_START that, on a full stack, narrows the top entry
\* in place.
ScissorStartCase_NarrowTop(stack, index, next) ==
    IF index < MAX_SCISSOR_STACK_DEPTH - 1
    THEN [stack |-> [stack EXCEPT
                        ![index + 1] = ScissorIntersect(stack[index], next)],
          index |-> index + 1]
    ELSE [stack |-> [stack EXCEPT
                        ![index] = ScissorIntersect(stack[index], next)],
          index |-> index]

\* The clip stack [stack, index] after SCISSOR_START with box "next".
ScissorStartCase(stack, index, next) ==
    IF index < MAX_SCISSOR_STACK_DEPTH - 1
    THEN [stack |-> [stack EXCEPT
                        ![index + 1] = ScissorIntersect(stack[index], next)],
          index |-> index + 1]
    ELSE [stack |-> stack, index |-> index]

\* The clip stack after SCISSOR_END.
ScissorEndCase(stack, index) ==
    IF index > 0 THEN [stack |-> stack, index |-> index - 1]
    ELSE [stack |-> stack, index |-> index]

(***************************************************************************)
(* Inputs: terminal sizes, colours, texts and render commands.             *)
(***************************************************************************)
TermSizes == {<<6, 3>>, <<2, 2>>}         \* <<columns, rows>>
TermColors == {8, 256}

Color(r, g, b) == [r |-> r, g |-> g, b |-> b, a |-> 255]
Red  == Color(255, 0, 0)
Grey == Color(128, 128, 128)
Blue == Color(100, 100, 255)

NoRadius == [topLeft |-> 0, topRight |-> 0, bottomLeft |-> 0, bottomRight |-> 0]

Cmd(type, box, color, text, radius) ==
    [commandType |-> type, boundingBox |-> box, color |-> color,
     text |-> text, cornerRadius |-> radius]

TextHi     == <<104, 105>>                \* "hi"
TextHWide  == <<104, 228, 184, 173>>      \* "h" and U+4E2D (two columns)

RectFull  == Cmd("RECTANGLE", Box(0, 0, 48, 48), Red, <<>>, NoRadius)
RectPart  == Cmd("RECTANGLE", Box(24, 16, 48, 16), Blue, <<>>, NoRadius)
TextAtHi  == Cmd("TEXT", Box(8, 16, 16, 16), Grey, TextHi, NoRadius)
TextAtHW  == Cmd("TEXT", Box(8, 0, 24, 16), Red, TextHWide, NoRadius)
BorderBox == Cmd("BORDER", Box(8, 0, 32, 32), Blue, <<>>,
                 [NoRadius EXCEPT !.topLeft = 4])
ScissorA  == Cmd("SCISSOR_START", Box(7, 0, 17, 48), Red, <<>>, NoRadius)
ScissorB  == Cmd("SCISSOR_START", Box(8, 0, 16, 48), Red, <<>>, NoRadius)
ScissorEnd == Cmd("SCISSOR_END", Box(0, 0, 0, 0), Red, <<>>, NoRadius)

Cmds == {RectFull, RectPart, TextAtHi, TextAtHW, BorderBox,
         ScissorA, ScissorB, ScissorEnd}

\* A list nesting one level deeper than the clip stack holds.
DeepNest == [k \in 1 .. MAX_SCISSOR_STACK_DEPTH + 1 |-> ScissorB]
            \o <<TextAtHW, ScissorEnd, ScissorEnd>>

Scenarios == { <<RectFull, TextAtHi>>,
               <<RectFull, TextAtHi, BorderBox, RectPart>>,
               <<ScissorB, TextAtHW, ScissorEnd>>,
               <<ScissorB, RectPart>>,
               <<ScissorA, BorderBox>>,
               <<ScissorA, ScissorB, ScissorEnd, ScissorEnd, ScissorEnd>>,
               <<ScissorB, ScissorA, RectFull, ScissorEnd, RectPart>>,
               DeepNest }

\* The command arrays handed to Render: the empty list, every single
\* command and the scenarios above.
CommandLists == {<<>>} \cup {<<a>> : a \in Cmds} \cup Scenarios

(***************************************************************************)
(* Initial state: the statics of the translation unit, zero-initialised,   *)
(* on a terminal in cooked mode.                                           *)
(***************************************************************************)
ZeroBox == Box(0, 0, 0, 0)

\* An API call as observed from outside: its name, whether the backend was
\* Active when it was entered, and the driver functions it called.
Call(name, active, driver) ==
    [name |-> name, active |-> active, driver |-> driver]

\* The driver functions called by Initialize (lines 70-82), by Terminate
\* (lines 92-99) and by Render before its loop (line 127).
InitializeDriverCalls ==
    {"setlocale", "initscr", "cbreak", "noecho", "keypad", "curs_set",
     "mousemask", "start_color", "use_default_colors", "getmaxyx"}
TerminateDriverCalls == {"clear", "refresh", "endwin", "set_term", "delscreen"}
RenderDriverCalls == {"getmaxyx"}
ZeroEntry == [fg |-> 0, bg |-> 0, pairId |-> 0]
ZeroStack == [n \in 0 .. MAX_SCISSOR_STACK_DEPTH - 1 |-> ZeroBox]

InitWith(sizes, texts) ==
    /\ _clayNcursesScreenWidth = 0
    /\ _clayNcursesScreenHeight = 0
    /\ _clayNcursesInitialized = FALSE
    /\ _scissorStack = ZeroStack
    /\ _scissorStackIndex = 0
    /\ _colorPairCache = [k \in 0 .. MAX_COLOR_PAIRS_CACHE - 1 |-> ZeroEntry]
    /\ _colorPairCacheSize = 0
    /\ \E sz \in sizes : termW = sz[1] /\ termH = sz[2]
    /\ termMode = "cooked"
    /\ COLORS \in TermColors
    /\ stdscr = BlankScreen(termW, termH)
    /\ colorPairs = <<>>
    /\ pc = "idle"
    /\ renderCommands = <<>>
    /\ i = 0
    /\ prevCommands = <<>>
    /\ sameAsPrev = FALSE
    /\ frames = 0
    /\ stepWrites = <<>>
    /\ stepReads = {}
    /\ stepClip = [x |-> 0, y |-> 0, w |-> 0, h |-> 0]
    /\ frameWrites = 0
    /\ flushes = 0
    /\ initPairCalls = 0
    /\ pairReturns = {}
    /\ lastPairCall = <<>>
    /\ activeAt = ZeroStack
    /\ entryDepth = 0
    /\ lastCall = Call("none", FALSE, {})
    /\ measureArg \in texts
    /\ measureRet = [width |-> 0, height |-> 0]

Init == InitWith(TermSizes, {<<>>})

observerVars == << stepWrites, stepReads, stepClip, frameWrites, flushes,
                   lastPairCall, activeAt, entryDepth >>

(***************************************************************************)
(* Clay_Ncurses_Initialize (clay_renderer_ncurses.c:67-88).                *)
(***************************************************************************)
\* Line 68: the early return of Initialize.
InitializeReturnsEarly_Never == FALSE
InitializeReturnsEarly == _clayNcursesInitialized

Clay_Ncurses_Initialize ==
    /\ pc = "idle"
    /\ IF InitializeReturnsEarly
       THEN /\ lastCall' = Call("Initialize", _clayNcursesInitialized, {})
            /\ UNCHANGED << rendererVars, termMode, stdscr, colorPairs,
                            prevCommands >>
       ELSE /\ lastCall' = Call("Initialize", _clayNcursesInitialized,
                                InitializeDriverCalls)
            /\ termMode' = "raw"
            /\ stdscr' = BlankScreen(termW, termH)
            /\ colorPairs' = <<>>
            /\ _clayNcursesScreenWidth' = termW
            /\ _clayNcursesScreenHeight' = termH
            /\ _scissorStack' = [_scissorStack EXCEPT
                                    ![0] = FullScreenBox(termW, termH)]
            /\ _scissorStackIndex' = 0
            /\ _clayNcursesInitialized' = TRUE
            /\ prevCommands' = <<>>
            /\ UNCHANGED << _colorPairCache, _colorPairCacheSize >>
    /\ UNCHANGED << termW, termH, COLORS, pc, renderCommands, i, sameAsPrev,
                    frames, observerVars, initPairCalls, pairReturns,
                    measureVars >>

(***************************************************************************)
(* Clay_Ncurses_Terminate (clay_renderer_ncurses.c:90-103).                *)
(***************************************************************************)
\* Line 91: the guard of Terminate.
TerminateActs_Always == TRUE
TerminateActs == _clayNcursesInitialized

Clay_Ncurses_Terminate ==
    /\ pc = "idle"
    /\ lastCall' = Call("Terminate", _clayNcursesInitialized,
                        IF TerminateActs THEN TerminateDriverCalls ELSE {})
    /\ IF TerminateActs
       THEN /\ stdscr' = BlankScreen(termW, termH)
            /\ colorPairs' = <<>>
            /\ termMode' = "cooked"
            /\ _clayNcursesInitialized' = FALSE
            /\ prevCommands' = <<>>
       ELSE UNCHANGED << stdscr, colorPairs, termMode,
                         _clayNcursesInitialized, prevCommands >>
    /\ UNCHANGED << _clayNcursesScreenWidth, _clayNcursesScreenHeight,
                    _scissorStack, _scissorStackIndex, _colorPairCache,
                    _colorPairCacheSize, termW, termH, COLORS, pc,
                    renderCommands, i, sameAsPrev, frames,
                    observerVars, initPairCalls, pairReturns, measureVars >>

(***************************************************************************)
(* The user resizes the terminal between two calls; the driver keeps the   *)
(* cells that remain and blanks the new ones.                              *)
(***************************************************************************)
Resize ==
    /\ pc = "idle"
    /\ \E sz \in TermSizes :
         /\ sz # <<termW, termH>>
         /\ termW' = sz[1]
         /\ termH' = sz[2]
         /\ stdscr' = [p \in Cells(sz[1], sz[2]) |->
                         IF _clayNcursesInitialized /\ p \in DOMAIN stdscr
                         THEN stdscr[p] ELSE BlankCell]
    /\ prevCommands' = <<>>
    /\ UNCHANGED << rendererVars, termMode, COLORS, colorPairs, pc,
                    renderCommands, i, sameAsPrev, frames, observerVars,
                    initPairCalls, pairReturns, lastCall, measureVars >>

(***************************************************************************)
(* Clay_Ncurses_Render (clay_renderer_ncurses.c:123-389), one step per     *)
(* loop iteration.  Nothing else runs while a Render call is in progress.  *)
(***************************************************************************)
\* A variant of the clip reset that forgets "_scissorStackIndex = 0".
ResetClip_KeepIndex(stack, index, w, h) ==
    [stack |-> [stack EXCEPT ![0] = FullScreenBox(w, h)], index |-> index]

\* Lines 133-134: the clip stack after the reset at the start of Render.
ResetClip(stack, index, w, h) ==
    [stack |-> [stack EXCEPT ![0] = FullScreenBox(w, h)], index |-> 0]

\* Line 124: the early return of Render.
RenderReturnsEarly_Never == FALSE
RenderReturnsEarly == ~_clayNcursesInitialized

\* Lines 123-134: the early return, the geometry query and the clip reset,
\* for a command array out of "lists".  A host that kept the previous array
\* hands the same array again.
RenderBeginWith(lists) ==
    /\ pc = "idle"
    /\ \E cmds \in lists :
         /\ prevCommands = <<>> \/ prevCommands = <<cmds>>
         /\ IF RenderReturnsEarly
            THEN /\ lastCall' = Call("Render", _clayNcursesInitialized, {})
                 /\ UNCHANGED << rendererVars, termW, termH, termMode, COLORS,
                                 stdscr, colorPairs, pc, renderCommands, i,
                                 prevCommands, sameAsPrev, frames, observerVars,
                                 initPairCalls, pairReturns, measureVars >>
            ELSE /\ frames < MaxFrames
                 /\ lastCall' = Call("Render", _clayNcursesInitialized,
                                     RenderDriverCalls)
                 /\ _clayNcursesScreenWidth' = termW
                 /\ _clayNcursesScreenHeight' = termH
                 /\ _scissorStack' =
                      ResetClip(_scissorStack, _scissorStackIndex,
                                termW, termH).stack
                 /\ _scissorStackIndex' =
                      ResetClip(_scissorStack, _scissorStackIndex,
                                termW, termH).index
                 /\ pc' = "loop"
                 /\ renderCommands' = cmds
                 /\ i' = 0
                 /\ sameAsPrev' = (prevCommands = <<cmds>>)
                 /\ frames' = frames + 1
                 /\ stepWrites' = <<>>
                 /\ stepReads' = {}
                 /\ stepClip' = CellRect(FullScreenBox(termW, termH))
                 /\ frameWrites' = 0
                 /\ flushes' = 0
                 /\ lastPairCall' = <<>>
                 /\ activeAt' = [ZeroStack EXCEPT
                                    ![0] = FullScreenBox(termW, termH)]
                 /\ entryDepth' = _scissorStackIndex
                 /\ UNCHANGED << _clayNcursesInitialized, _colorPairCache,
                                 _colorPairCacheSize, termW, termH, termMode,
                                 COLORS, stdscr, colorPairs, prevCommands,
                                 initPairCalls, pairReturns, measureVars >>

RenderBegin == RenderBeginWith(CommandLists)

\* What the switch does for one command: the driver calls, the GetColorPair
\* call (if any) and the clip stack afterwards.
DrawCase(cmd) ==
    IF cmd.commandType = "RECTANGLE" THEN RectangleCase(cmd)
    ELSE IF cmd.commandType = "TEXT" THEN TextCase(cmd)
    ELSE IF cmd.commandType = "BORDER" THEN BorderCase(cmd)
    ELSE NoDraw

ClipCase(cmd) ==
    IF cmd.commandType = "SCISSOR_START"
      THEN ScissorStartCase(_scissorStack, _scissorStackIndex, cmd.boundingBox)
    ELSE IF cmd.commandType = "SCISSOR_END"
      THEN ScissorEndCase(_scissorStack, _scissorStackIndex)
    ELSE [stack |-> _scissorStack, index |-> _scissorStackIndex]

CommandEffect(cmd) == [draw |-> DrawCase(cmd), clip |-> ClipCase(cmd)]

\* The GetColorPair call (fg, bg) of a command with result gp: the cache and
\* the driver's pair table afterwards.
PairCall(fg, bg, gp) ==
    /\ _colorPairCache' = gp.cache
    /\ _colorPairCacheSize' = gp.size
    /\ colorPairs' =
         IF gp.registered
         THEN [q \in DOMAIN colorPairs \cup {gp.id} |->
                 IF q = gp.id THEN <<fg, bg>> ELSE colorPairs[q]]
         ELSE colorPairs
    /\ initPairCalls' = initPairCalls + (IF gp.registered THEN 1 ELSE 0)
    /\ pairReturns' = pairReturns \cup {<<fg, bg, gp.id>>}
    /\ lastPairCall' =
         <<[fg |-> fg, bg |-> bg, id |-> gp.id,
            hit |-> CacheFind(_colorPairCache, _colorPairCacheSize, fg, bg) >= 0,
            full |-> _colorPairCacheSize >= MAX_COLOR_PAIRS_CACHE]>>

\* The state after one command: run holds the screen, the reads and the
\* writes of its driver calls, clip the clip stack it leaves.
CommandDone(call, clip, run) ==
    /\ stdscr' = run.scr
    /\ stepWrites' = run.writes
    /\ stepReads' = run.reads
    /\ frameWrites' = frameWrites + Len(run.writes)
    /\ stepClip' = CellRect(_scissorStack[_scissorStackIndex])
    /\ _scissorStack' = clip.stack
    /\ _scissorStackIndex' = clip.index
    /\ activeAt' = [activeAt EXCEPT ![clip.index] = clip.stack[clip.index]]
    /\ IF call = <<>>
       THEN /\ lastPairCall' = <<>>
            /\ UNCHANGED << _colorPairCache, _colorPairCacheSize,
                            colorPairs, initPairCalls, pairReturns >>
       ELSE PairCall(call[1].fg, call[1].bg,
                     Clay_Ncurses_GetColorPair(_colorPairCache,
                         _colorPairCacheSize, call[1].fg, call[1].bg))

CommandRun(eff) ==
    CommandDone(eff.draw.call, eff.clip,
                RunOps(eff.draw.ops, stdscr))

\* Lines 136-386: one iteration of the for loop.
RenderStep ==
    /\ pc = "loop"
    /\ i < Len(renderCommands)
    /\ CommandRun(CommandEffect(renderCommands[i + 1]))
    /\ i' = i + 1
    /\ UNCHANGED << _clayNcursesScreenWidth, _clayNcursesScreenHeight,
                    _clayNcursesInitialized, termW, termH, termMode, COLORS,
                    pc, renderCommands, prevCommands, sameAsPrev, frames,
                    flushes, entryDepth, lastCall, measureVars >>

\* refresh(): one more flush after n flushes.
Refresh_Skipped(n) == n
Refresh(n) == n + 1

\* Line 388: refresh(), and the return to the host, which keeps the array
\* for another call or drops it.

RenderEnd ==
    /\ pc = "loop"
    /\ i = Len(renderCommands)
    /\ flushes' = Refresh(flushes)
    /\ pc' = "idle"
    /\ \E keep \in BOOLEAN :
         prevCommands' = IF keep THEN <<renderCommands>> ELSE <<>>
    /\ renderCommands' = <<>>
    /\ i' = 0
    /\ sameAsPrev' = FALSE
    /\ stepWrites' = <<>>
    /\ stepReads' = {}
    /\ stepClip' = [x |-> 0, y |-> 0, w |-> 0, h |-> 0]
    /\ frameWrites' = 0
    /\ lastPairCall' = <<>>
    /\ activeAt' = ZeroStack
    /\ entryDepth' = 0
    /\ UNCHANGED << rendererVars, termW, termH, termMode, COLORS, stdscr,
                    colorPairs, frames, initPairCalls, pairReturns, lastCall,
                    measureVars >>

Next ==
    \/ Clay_Ncurses_Initialize
    \/ Clay_Ncurses_Terminate
    \/ Resize
    \/ RenderBegin
    \/ RenderStep
    \/ RenderEnd

Spec == Init /\ [][Next]_vars

(***************************************************************************)
(* The same program on a terminal of 10 x 5 cells that is not resized,     *)
(* with command arrays laid out for that screen.                           *)
(***************************************************************************)
Rect10x5   == Cmd("RECTANGLE", Box(0, 0, 80, 80), Red, <<>>, NoRadius)
RectRight  == Cmd("RECTANGLE", Box(16, 0, 64, 80), Blue, <<>>, NoRadius)
ScissorMid == Cmd("SCISSOR_START", Box(8, 0, 24, 80), Red, <<>>, NoRadius)
\* U+4E2D (two columns) followed by "abc".
TextWabc   == Cmd("TEXT", Box(0, 32, 40, 16), Grey,
                  <<228, 184, 173, 97, 98, 99>>, NoRadius)

\* "h", a stray continuation byte, "i": a malformed multi-byte sequence.
TextMalformed == Cmd("TEXT", Box(8, 16, 24, 16), Grey,
                     <<104, 129, 105>>, NoRadius)

\* A properly nested list one level deeper than the clip stack holds: the
\* innermost ScissorStart arrives when the stack is full.
ScissorC == Cmd("SCISSOR_START", Box(16, 0, 8, 48), Red, <<>>, NoRadius)
DeepNested == [k \in 1 .. MAX_SCISSOR_STACK_DEPTH - 2 |-> ScissorA]
              \o <<ScissorB, ScissorC>>
              \o [k \in 1 .. MAX_SCISSOR_STACK_DEPTH |-> ScissorEnd]

\* A rectangle of one cell whose origin lies half a cell left of the screen
\* (content scrolled or dragged partly out of view).
RectNegative == Cmd("RECTANGLE", Box(-4, 0, 8, 16), Blue, <<>>, NoRadius)

\* One border of 6 x 3 cells at cell (1, 1), in two colours.
BorderInBlue == Cmd("BORDER", Box(8, 16, 48, 48), Blue, <<>>, NoRadius)
BorderInRed  == Cmd("BORDER", Box(8, 16, 48, 48), Red, <<>>, NoRadius)

\* A clip of cells 5..6 pushed inside the clip of cells 1..3: the two do not
\* overlap.  Commands that would draw inside cells 1..3 follow, then a
\* further clip, and after the three pops a rectangle under the full screen.
ScissorFar == Cmd("SCISSOR_START", Box(40, 0, 16, 80), Red, <<>>, NoRadius)
EmptyClipList == <<ScissorMid, ScissorFar, Rect10x5, TextAtHi, BorderInBlue,
                   ScissorB, RectRight, ScissorEnd, ScissorEnd, ScissorEnd,
                   RectRight>>

CommandLists10x5 == { <<>>,
                      <<TextWabc>>,
                      <<Rect10x5, TextAtHi>>,
                      <<RectRight, TextAtHi>>,
                      <<ScissorMid, TextWabc>>,
                      <<TextMalformed, RectRight>>,
                      DeepNested,
                      <<ScissorEnd>> \o DeepNested,
                      <<RectNegative>>,
                      <<BorderInBlue>>,
                      <<BorderInRed>>,
                      EmptyClipList }

Init10x5 == InitWith({<<10, 5>>}, {<<>>})

Next10x5 ==
    \/ Clay_Ncurses_Initialize
    \/ Clay_Ncurses_Terminate
    \/ RenderBeginWith(CommandLists10x5)
    \/ RenderStep
    \/ RenderEnd

Spec10x5 == Init10x5 /\ [][Next10x5]_vars

(***************************************************************************)
(* Render on the 10 x 5 terminal with one clip pushed and one rectangle    *)
(* drawn under it, the rectangle placed around the edges of the clip:      *)
(* apart from it, touching it along an edge, overlapping it by one cell    *)
(* or by more.                                                             *)
(***************************************************************************)
\* Clips: cells 2..5 x 1..2, and a clip of no width.
ClipBoxes == {Box(16, 16, 32, 32), Box(16, 16, 0, 32)}
RectBoxes == {Box(x, y, w, h) : x \in {0, 40, 48}, y \in {0, 32, 48},
                                w \in {8, 16, 24}, h \in {16, 32}}
ClipLists == {<<Cmd("SCISSOR_START", c, Red, <<>>, NoRadius),
                Cmd("RECTANGLE", r, Red, <<>>, NoRadius)>> :
                 c \in ClipBoxes, r \in RectBoxes}

\* Borders of 2 or 4 by 2 or 3 cells around the same clips; two of the
\* corners are rounded.
BorderBoxes == {Box(x, y, w, h) : x \in {0, 24}, y \in {0, 16},
                                  w \in {16, 32}, h \in {32, 48}}
BorderLists == {<<Cmd("SCISSOR_START", c, Red, <<>>, NoRadius),
                  Cmd("BORDER", r, Blue, <<>>,
                      [NoRadius EXCEPT !.topLeft = 4, !.bottomRight = 2])>> :
                   c \in ClipBoxes, r \in BorderBoxes}

ClipNext ==
    \/ Clay_Ncurses_Initialize
    \/ RenderBeginWith(ClipLists \cup BorderLists)
    \/ RenderStep
    \/ RenderEnd

ClipSpec == Init10x5 /\ [][ClipNext]_vars

(***************************************************************************)
(* The hosting process of the example (ncurses-example/main.c:451-492):    *)
(* main calls Initialize once, Render once per pass of its loop, and       *)
(* Terminate after the loop, then returns.  It installs no signal handler  *)
(* and no exit hook, so a signal or a crash ends the process wherever it   *)
(* is; the terminal driver's own handler restores the terminal for some    *)
(* signals (SIGINT, SIGTERM) and not for others (SIGKILL, SIGSEGV).        *)
(* pc = "exited" is the process after its end.                             *)
(***************************************************************************)
MainInitialize ==
    /\ lastCall.name = "none"
    /\ Clay_Ncurses_Initialize

MainRender ==
    /\ lastCall.name \in {"Initialize", "Render"}
    /\ RenderBeginWith(CommandLists10x5)

MainTerminate ==
    /\ lastCall.name \in {"Initialize", "Render"}
    /\ Clay_Ncurses_Terminate

MainReturn ==
    /\ pc = "idle"
    /\ lastCall.name = "Terminate"
    /\ pc' = "exited"
    /\ UNCHANGED << rendererVars, termW, termH, termMode, COLORS, stdscr,
                    colorPairs, renderCommands, i, prevCommands, sameAsPrev,
                    frames, observerVars, initPairCalls, pairReturns,
                    lastCall, measureVars >>

ProcessKilled ==
    /\ pc \in {"idle", "loop"}
    /\ pc' = "exited"
    /\ termMode' \in {termMode, "cooked"}
    /\ UNCHANGED << rendererVars, termW, termH, COLORS, stdscr,
                    colorPairs, renderCommands, i, prevCommands, sameAsPrev,
                    frames, observerVars, initPairCalls, pairReturns,
                    lastCall, measureVars >>

HostNext ==
    \/ MainInitialize
    \/ MainRender
    \/ RenderStep
    \/ RenderEnd
    \/ MainTerminate
    \/ MainReturn
    \/ ProcessKilled

HostSpec == Init10x5 /\ [][HostNext]_vars

(***************************************************************************)
(* Clay_Ncurses_MeasureText (clay_renderer_ncurses.c:112-121), the         *)
(* callback the layout engine calls with a text of the layout.  It reads   *)
(* and writes no state of the renderer or of the terminal.                 *)
(***************************************************************************)
\* Bytes of the measured texts: "A", the three bytes of U+4E2D (two columns)
\* and the two bytes of U+0301 (a combining mark, no column).  Other orders
\* of these bytes give truncated and stray sequences.
MeasureBytes == {65, 228, 184, 173, 204, 129}
Texts == UNION {[1 .. n -> MeasureBytes] : n \in 0 .. MaxTextLen}

Clay_Ncurses_MeasureText ==
    /\ pc = "idle"
    /\ measureRet' =
         [width |-> Clay_Ncurses_MeasureStringWidth(measureArg)
                      * CLAY_NCURSES_CELL_WIDTH,
          height |-> CLAY_NCURSES_CELL_HEIGHT]
    /\ UNCHANGED << measureArg, rendererVars, termW, termH, termMode, COLORS, stdscr,
                    colorPairs, pc, renderCommands, i, prevCommands,
                    sameAsPrev, frames, observerVars, initPairCalls,
                    pairReturns, lastCall >>

MeasureInit == InitWith({<<6, 3>>}, Texts) /\ COLORS = 8

MeasureSpec == MeasureInit /\ [][Clay_Ncurses_MeasureText]_vars

(***************************************************************************)
(* Properties.                                                             *)
(***************************************************************************)
\* The command processed by the last loop iteration.
InLoopAfterCommand == pc = "loop" /\ i >= 1
LastCommand == renderCommands[i]

\* The cells of a cell-space rectangle.
RectCells(r) == {<<row, col>> : row \in r.y .. r.y + r.h - 1,
                                col \in r.x .. r.x + r.w - 1}

CacheEntries == {_colorPairCache[k] : k \in 0 .. _colorPairCacheSize - 1}

\* C1: a Render that repeats the previous call's command list, with no
\* resize and no other change of the screen in between, writes no cell.
C1_RepeatedRenderWritesNothing == sameAsPrev => frameWrites = 0

\* C2: every cell write of a command is preceded by a read of that cell and
\* goes to a cell whose glyph or colour pair differs from the one written.
C2_WritesOnlyDirtyCellsAfterRead ==
    \A k \in 1 .. Len(stepWrites) :
        /\ stepWrites[k].read
        /\ \/ stepWrites[k].oldCh # stepWrites[k].ch
           \/ stepWrites[k].oldPair # stepWrites[k].pair

\* C3: every cell a command writes lies inside the cell-space clip that was
\* on top of the clip stack when the command was processed, and a Rectangle
\* lying entirely outside that clip writes nothing and requests no pair.
C3_NoWriteOutsideClip ==
    /\ \A k \in 1 .. Len(stepWrites) :
          <<stepWrites[k].row, stepWrites[k].col>> \in RectCells(stepClip)
    /\ (InLoopAfterCommand /\ LastCommand.commandType = "RECTANGLE"
        /\ RectCells(CellRect(LastCommand.boundingBox))
             \cap RectCells(stepClip) = {})
       => (stepWrites = <<>> /\ lastPairCall = <<>>)

\* C4: inside one Render, whenever a ScissorEnd brings the clip stack back
\* to depth d, the active clip is the entry that was active the last time
\* the depth was d.
C4_PopRestoresRegion ==
    [][ (pc = "loop" /\ pc' = "loop"
         /\ _scissorStackIndex' < _scissorStackIndex)
        => _scissorStack'[_scissorStackIndex'] = activeAt[_scissorStackIndex']
      ]_vars

C4_Witness ==
    /\ InLoopAfterCommand
    /\ LastCommand.commandType = "SCISSOR_END"
    /\ _scissorStackIndex = 1
    /\ _scissorStack[1] # _scissorStack[2]
    /\ _scissorStack[1] # _scissorStack[0]

\* C5: the cell-coordinate region of every clip stack entry from depth 1 to
\* the current depth is a subset of the cell-coordinate region below it.
C5_CellRegionsNested ==
    \A n \in 1 .. _scissorStackIndex :
        RectCells(CellRect(_scissorStack[n]))
            \subseteq RectCells(CellRect(_scissorStack[n - 1]))

\* C6: when Render's loop starts, the clip stack is the single full-screen
\* entry at the geometry just queried, whatever the previous frame left and
\* whatever resize came before; inside the frame an entry leaves the stack
\* only by a ScissorEnd, one entry at a time, and entries that stay are not
\* changed, so the clip of an unmatched ScissorStart stays in force (entries
\* pushed on top of it only narrow it, in pixel space).
PixelSubset(a, b) ==
    \/ a.width <= 0
    \/ a.height <= 0
    \/ /\ a.x >= b.x
       /\ a.y >= b.y
       /\ a.x + a.width <= b.x + b.width
       /\ a.y + a.height <= b.y + b.height

C7_SamePairSameId ==
    \A s \in pairReturns : \A t \in pairReturns :
        (s[1] = t[1] /\ s[2] = t[2]) => s[3] = t[3]

\* A cached pair is requested again in a later frame, after some other
\* request was answered with the default id because the cache was full.
C7_Witness ==
    /\ frames = 2
    /\ lastPairCall # <<>>
    /\ lastPairCall[1].hit
    /\ lastPairCall[1].id >= 1
    /\ \E t \in pairReturns : t[3] = 0

\* C8: the cache never holds more entries than its capacity, and init_pair
\* has been called exactly once per cache entry.
C8_CacheBounded ==
    /\ _colorPairCacheSize <= MAX_COLOR_PAIRS_CACHE
    /\ initPairCalls = _colorPairCacheSize

C8_Witness ==
    /\ _colorPairCacheSize = MAX_COLOR_PAIRS_CACHE
    /\ initPairCalls = MAX_COLOR_PAIRS_CACHE
    /\ lastPairCall # <<>>
    /\ ~lastPairCall[1].hit
    /\ lastPairCall[1].full

\* C9: a cache entry, once appended, is never changed or removed; no two
\* entries share their (fg, bg), no two share their id, and no id is 0.
C9_EntriesPermanent ==
    [][ /\ _colorPairCacheSize' >= _colorPairCacheSize
        /\ \A k \in 0 .. _colorPairCacheSize - 1 :
              _colorPairCache'[k] = _colorPairCache[k]
        /\ \A k \in 0 .. _colorPairCacheSize' - 1 :
              /\ _colorPairCache'[k].pairId # 0
              /\ \A m \in 0 .. _colorPairCacheSize' - 1 :
                    (m # k) =>
                      /\ _colorPairCache'[m].pairId # _colorPairCache'[k].pairId
                      /\ \/ _colorPairCache'[m].fg # _colorPairCache'[k].fg
                         \/ _colorPairCache'[m].bg # _colorPairCache'[k].bg
      ]_vars

\* A request that misses arrives at a full cache in the second frame.
C9_Witness ==
    /\ frames = 2
    /\ _colorPairCacheSize = MAX_COLOR_PAIRS_CACHE
    /\ lastPairCall # <<>>
    /\ lastPairCall[1].full
    /\ ~lastPairCall[1].hit

\* C10: with the cache full, a GetColorPair call for a pair that is not
\* cached returns 0, calls no init_pair and leaves the cache as it is; a call
\* for a cached pair returns that entry's id.
C10_FullCacheReturnsDefault ==
    [][ (pc = "loop" /\ i' = i + 1 /\ lastPairCall' # <<>>
         /\ _colorPairCacheSize >= MAX_COLOR_PAIRS_CACHE)
        => LET c == lastPairCall'[1]
               cached == {e \in CacheEntries : e.fg = c.fg /\ e.bg = c.bg}
           IN  IF cached = {}
               THEN /\ c.id = 0
                    /\ initPairCalls' = initPairCalls
                    /\ colorPairs' = colorPairs
                    /\ _colorPairCache' = _colorPairCache
                    /\ _colorPairCacheSize' = _colorPairCacheSize
               ELSE /\ \E e \in cached : c.id = e.pairId
                    /\ c.id # 0
      ]_vars

\* Both cases happened: the last call hit a full cache, and an earlier one
\* missed it and got the default id.
C10_Witness ==
    /\ lastPairCall # <<>>
    /\ lastPairCall[1].full
    /\ lastPairCall[1].hit
    /\ lastPairCall[1].id # 0
    /\ <<lastPairCall[1].fg, lastPairCall[1].bg, 0>> \notin pairReturns
    /\ \E t \in pairReturns : t[3] = 0 /\ t[1] # t[2]

\* The backend has been Active and is not any more: Initialize stored the
\* terminal width (never 0 here), and only Terminate clears the flag.
Terminated == ~_clayNcursesInitialized /\ _clayNcursesScreenWidth > 0

\* C11: once Terminate has run after an Initialize, no later call makes the
\* backend Active again.
C11_TerminatedIsFinal ==
    [][ Terminated => ~_clayNcursesInitialized' ]_vars

\* C12: Initialize called while Active calls no driver function and leaves
\* the terminal, the stored dimensions, the clip stack and the colour pair
\* cache as they were.
C12_InitializeIdempotent ==
    [][ (pc = "idle" /\ _clayNcursesInitialized
         /\ lastCall' # lastCall /\ lastCall'.name = "Initialize")
        => /\ lastCall'.driver = {}
           /\ UNCHANGED << rendererVars, termMode, stdscr, colorPairs,
                           initPairCalls >>
      ]_vars

\* Initialize is called again after a frame that left a clip pushed and a
\* colour pair cached.
C12_Witness ==
    /\ lastCall = Call("Initialize", TRUE, {})
    /\ _scissorStackIndex = 1
    /\ _colorPairCacheSize >= 1
    /\ stdscr # BlankScreen(termW, termH)

\* C13: Render called while the backend is not Active calls no driver
\* function, reads and writes no cell, does not flush, and leaves the stored
\* dimensions, the clip stack and the colour pair cache unchanged.
C13_RenderInactiveNoOp ==
    [][ (pc = "idle" /\ ~_clayNcursesInitialized
         /\ lastCall' # lastCall /\ lastCall'.name = "Render")
        => /\ lastCall'.driver = {}
           /\ pc' = "idle"
           /\ UNCHANGED << rendererVars, stdscr, colorPairs, initPairCalls,
                           stepReads, stepWrites, frameWrites, flushes >>
      ]_vars

\* Render is called after Terminate, with pairs still cached.
C13_Witness ==
    /\ lastCall = Call("Render", FALSE, {})
    /\ Terminated
    /\ _colorPairCacheSize >= 1

\* C14: Terminate called while the backend is not Active calls no driver
\* function and changes no state.
C14_TerminateInactiveNoOp ==
    [][ (pc = "idle" /\ ~_clayNcursesInitialized
         /\ lastCall' # lastCall /\ lastCall'.name = "Terminate")
        => /\ lastCall'.driver = {}
           /\ UNCHANGED << rendererVars, termW, termH, termMode, COLORS,
                           stdscr, colorPairs, pc, renderCommands, i,
                           prevCommands, sameAsPrev, frames, observerVars,
                           initPairCalls, pairReturns >>
      ]_vars

\* Terminate is called a second time in a row.
C14_Witness ==
    /\ lastCall = Call("Terminate", FALSE, {})
    /\ Terminated
    /\ termMode = "cooked"

\* C15: no flush happens while Render's loop runs, and Render returns only
\* after the last command, having flushed exactly once.
C15_FlushOnceAtEnd ==
    [][ /\ (pc' = "loop") => (flushes' = 0)
        /\ (pc = "loop" /\ pc' = "idle")
           => (i = Len(renderCommands) /\ flushes' = 1)
      ]_vars

\* A Render has returned whose rectangle was skipped: it lies outside the
\* clip pushed before it.
C15_Witness ==
    /\ pc = "idle"
    /\ flushes = 1
    /\ termW = 6
    /\ prevCommands = << <<ScissorB, RectPart>> >>

\* C16: on a blank 10x5 screen, after Render of [red Rectangle over the whole
\* screen, Text "hi" at cell (1,1)] every cell is a blank in the red fill,
\* except cells (1,1) and (2,1), which hold 'h' and 'i' in a pair whose
\* foreground is the text colour and whose background is red.
C16_RectThenText ==
    (pc = "loop" /\ frames = 1 /\ i = 2
     /\ renderCommands = <<Rect10x5, TextAtHi>>)
    => \A p \in Cells(10, 5) :
          LET content == PairContent(colorPairs, stdscr[p].pair)
              red == Clay_Ncurses_GetColorId(Red)
              grey == Clay_Ncurses_GetColorId(Grey)
          IN  IF p = <<1, 1>>
              THEN stdscr[p].ch = 104 /\ content = <<grey, red>>
              ELSE IF p = <<1, 2>>
              THEN stdscr[p].ch = 105 /\ content = <<grey, red>>
              ELSE stdscr[p].ch = SPACE /\ content = <<red, red>>

C16_Witness ==
    /\ pc = "loop"
    /\ frames = 1
    /\ i = 2
    /\ renderCommands = <<Rect10x5, TextAtHi>>
    /\ stdscr[<<1, 2>>].ch = 105
    /\ COLORS = 256

\* C17: every cell written by a Text command gets a colour pair whose
\* background is the background the cell had before the command.
C17_TextKeepsCellBackground ==
    (InLoopAfterCommand /\ LastCommand.commandType = "TEXT")
    => \A k \in 1 .. Len(stepWrites) :
          PairContent(colorPairs, stepWrites[k].pair)[2]
            = PairContent(colorPairs, stepWrites[k].oldPair)[2]

\* C18: every glyph a Text command draws lies with its whole width inside
\* the window, the part of the text run inside the clip.
C18_NoPartialGlyph ==
    (InLoopAfterCommand /\ LastCommand.commandType = "TEXT")
    => LET x  == CellX(LastCommand.boundingBox.x)
           tw == Clay_Ncurses_MeasureStringWidth(LastCommand.text)
           lo == Max(x, stepClip.x)
           hi == Min(x + tw, stepClip.x + stepClip.w)
       IN  \A k \in 1 .. Len(stepWrites) :
              stepWrites[k].ch # WIDE_EXT
              => /\ stepWrites[k].col >= lo
                 /\ stepWrites[k].col + Wcwidth(stepWrites[k].ch) <= hi

\* C19: the text of one wide codepoint and "abc" measures 5 columns, and
\* clipped with skip = 1, take = 3 the wide codepoint is left out and exactly
\* "a" and "b", the codepoints inside columns [1, 4), are selected and drawn.
C19_WideThenAscii ==
    /\ Clay_Ncurses_MeasureStringWidth(TextWabc.text) = 5
    /\ ClipLoop(Mbstowcs(TextWabc.text).w, 0, 0, -1, 0, 1, 3)
         = [printStart |-> 1, printLen |-> 2]
    /\ (InLoopAfterCommand /\ LastCommand = TextWabc
        /\ stepClip.x = 1 /\ stepClip.w = 3)
       => [k \in 1 .. Len(stepWrites) |-> stepWrites[k].ch] = <<97, 98>>

C19_Witness ==
    /\ InLoopAfterCommand
    /\ LastCommand = TextWabc
    /\ stepClip.x = 1
    /\ stepClip.w = 3
    /\ Len(stepWrites) = 2
    /\ stepWrites[1].col = 1

\* C20: the width measured for a text is the sum of the widths measured for
\* its two parts, for every split point that is not inside a multi-byte
\* codepoint of the text.
SplitPoints(text) ==
    {n \in 0 .. Len(text) : n = Len(text) \/ n + 1 \in DecodeStarts(text, 1)}

C20_MeasureAdditive ==
    (measureRet.height # 0) =>
    \A n \in SplitPoints(measureArg) :
        measureRet.width =
            ( Clay_Ncurses_MeasureStringWidth(SubSeq(measureArg, 1, n))
              + Clay_Ncurses_MeasureStringWidth(
                    SubSeq(measureArg, n + 1, Len(measureArg))) )
            * CLAY_NCURSES_CELL_WIDTH

\* A text of a wide codepoint, a stray continuation byte and a combining
\* mark has been measured.
C20_Witness ==
    /\ measureArg = <<228, 184, 173, 129, 204, 129>>
    /\ measureRet.width = 2 * CLAY_NCURSES_CELL_WIDTH
    /\ SplitPoints(measureArg) = {0, 3, 4, 6}

\* The codepoints the measuring loop decodes from byte i on: a byte that
\* starts no well-formed sequence is skipped.
RECURSIVE WellFormedFrom(_, _)
WellFormedFrom(s, n) ==
    IF n > Len(s) THEN <<>>
    ELSE IF Mbtowc(s, n).bytes <= 0 THEN WellFormedFrom(s, n + 1)
    ELSE <<Mbtowc(s, n).wc>> \o WellFormedFrom(s, n + Mbtowc(s, n).bytes)

HasColumns(wc) == Wcwidth(wc) > 0
IsBaseGlyph(ch) == ch # WIDE_EXT

\* The text run of the last command lies inside the clip it was drawn under.
TextRunInsideClip ==
    LET x == CellX(LastCommand.boundingBox.x)
        y == CellY(LastCommand.boundingBox.y)
        tw == Clay_Ncurses_MeasureStringWidth(LastCommand.text)
    IN  /\ tw > 0
        /\ x >= stepClip.x
        /\ x + tw <= stepClip.x + stepClip.w
        /\ y >= stepClip.y
        /\ y < stepClip.y + stepClip.h

\* C21: a Text command draws the well-formed codepoints of its text, also
\* when the text holds a malformed multi-byte sequence (one byte is skipped
\* at the malformed position, as in measuring), and the commands after it
\* are processed.
C21_MalformedTextStillDrawn ==
    (InLoopAfterCommand /\ LastCommand.commandType = "TEXT"
     /\ TextRunInsideClip)
    => SelectSeq([k \in 1 .. Len(stepWrites) |-> stepWrites[k].ch], IsBaseGlyph)
         = SelectSeq(WellFormedFrom(LastCommand.text, 1), HasColumns)

\* C22: the clip stack always holds between 1 and 16 entries; a ScissorStart
\* processed when it holds 16 entries and a ScissorEnd processed when it
\* holds only the full-screen entry leave the depth and every entry as they
\* are, and the loop goes on to the next command.
C22_ClipStackDepthBounded ==
    [][ /\ _scissorStackIndex' + 1 \in 1 .. MAX_SCISSOR_STACK_DEPTH
        /\ (pc = "loop" /\ i < Len(renderCommands)
            /\ \/ /\ renderCommands[i + 1].commandType = "SCISSOR_START"
                  /\ _scissorStackIndex + 1 = MAX_SCISSOR_STACK_DEPTH
               \/ /\ renderCommands[i + 1].commandType = "SCISSOR_END"
                  /\ _scissorStackIndex + 1 = 1)
           => /\ _scissorStackIndex' = _scissorStackIndex
              /\ _scissorStack' = _scissorStack
              /\ pc' = "loop"
              /\ i' = i + 1
              /\ UNCHANGED << stdscr, termMode, _clayNcursesInitialized >>
      ]_vars

\* A ScissorStart has just been processed on a full stack, in a frame whose
\* first command was a ScissorEnd on the single full-screen entry.
C22_Witness ==
    /\ InLoopAfterCommand
    /\ renderCommands[1].commandType = "SCISSOR_END"
    /\ LastCommand = ScissorC
    /\ i = MAX_SCISSOR_STACK_DEPTH + 1
    /\ _scissorStackIndex = MAX_SCISSOR_STACK_DEPTH - 1
    /\ _scissorStack[_scissorStackIndex] = ScissorB.boundingBox

\* C23: whenever the hosting process has ended after Initialize made the
\* backend Active, Terminate has run and the terminal is back in its
\* original mode.
C23_TerminateOnEveryExit ==
    (pc = "exited" /\ _clayNcursesScreenWidth > 0)
    => (~_clayNcursesInitialized /\ termMode = "cooked")

\* C24: after Terminate the colour pair cache holds no entries, and an id
\* GetColorPair returns (other than the default 0) is registered with the
\* terminal session in use.
C24_CacheDestroyedAtTerminate ==
    /\ Terminated => _colorPairCacheSize = 0
    /\ (lastPairCall # <<>> /\ lastPairCall[1].id # 0)
       => lastPairCall[1].id \in DOMAIN colorPairs

\* C25: for a rectangle drawn under a clip, IntersectScissor finds nothing
\* exactly when the rectangle and the clip share no cell (rectangles that
\* only touch along an edge share none), otherwise it gives exactly the
\* cells they share; it leaves the clip stack as it is.
C25_IntersectExact ==
    [][ (pc = "loop" /\ i' = i + 1
         /\ renderCommands[i + 1].commandType = "RECTANGLE")
        => /\ (lastPairCall' = <<>>)
                <=> (RectCells(CellRect(renderCommands[i + 1].boundingBox))
                       \cap RectCells(CellRect(_scissorStack[_scissorStackIndex]))
                     = {})
           /\ stepReads'
                = RectCells(CellRect(renderCommands[i + 1].boundingBox))
                    \cap RectCells(CellRect(_scissorStack[_scissorStackIndex]))
           /\ UNCHANGED << _scissorStack, _scissorStackIndex >>
      ]_vars

\* A rectangle of 1 x 1 cells in the bottom right cell of the clip has been
\* drawn in a second frame, on a screen the first frame left blank (its
\* rectangle shared no cell with its clip).
C25_Witness ==
    /\ InLoopAfterCommand
    /\ frames = 2
    /\ LastCommand.commandType = "RECTANGLE"
    /\ LastCommand.boundingBox = Box(40, 32, 8, 16)
    /\ stepClip = [x |-> 2, y |-> 1, w |-> 4, h |-> 2]
    /\ stepReads = {<<2, 5>>}
    /\ \A p \in Cells(10, 5) \ {<<2, 5>>} : stdscr[p] = BlankCell

\* The perimeter cells of a cell rectangle at least 2 x 2 cells large, and
\* the glyph a border shows in each of them for the corner radii r.
Perimeter(b) ==
    {p \in RectCells(b) : \/ p[1] = b.y
                          \/ p[1] = b.y + b.h - 1
                          \/ p[2] = b.x
                          \/ p[2] = b.x + b.w - 1}

BorderGlyph(b, r, p) ==
    IF p = <<b.y, b.x>>
      THEN (IF r.topLeft > 0 THEN GLYPH_TL_ROUND ELSE GLYPH_TL_SQUARE)
    ELSE IF p = <<b.y, b.x + b.w - 1>>
      THEN (IF r.topRight > 0 THEN GLYPH_TR_ROUND ELSE GLYPH_TR_SQUARE)
    ELSE IF p = <<b.y + b.h - 1, b.x>>
      THEN (IF r.bottomLeft > 0 THEN GLYPH_BL_ROUND ELSE GLYPH_BL_SQUARE)
    ELSE IF p = <<b.y + b.h - 1, b.x + b.w - 1>>
      THEN (IF r.bottomRight > 0 THEN GLYPH_BR_ROUND ELSE GLYPH_BR_SQUARE)
    ELSE IF p[1] = b.y \/ p[1] = b.y + b.h - 1 THEN GLYPH_HLINE
    ELSE GLYPH_VLINE

StepWriteCells == {<<stepWrites[k].row, stepWrites[k].col>> :
                      k \in 1 .. Len(stepWrites)}

\* C26: after a Border command every perimeter cell of its box that lies
\* inside the clip shows the glyph of its side or corner (round exactly when
\* the radius of that corner is above 0), whatever else of the border is
\* clipped away, and no other cell is written.
C26_BorderClippedPerSide ==
    (InLoopAfterCommand /\ LastCommand.commandType = "BORDER")
    => /\ \A p \in Perimeter(CellRect(LastCommand.boundingBox))
                    \cap RectCells(stepClip) :
              stdscr[p].ch = BorderGlyph(CellRect(LastCommand.boundingBox),
                                         LastCommand.cornerRadius, p)
       /\ StepWriteCells \subseteq
              Perimeter(CellRect(LastCommand.boundingBox))
                \cap RectCells(stepClip)

\* A border of 4 x 3 cells at cell (3, 0) has been drawn under the clip of
\* cells 2..5 x 1..2: its top side, its right side and three corners are
\* clipped away; the middle cell of its left side, the bottom left corner
\* and two cells of its bottom side are drawn.
C26_Witness ==
    /\ InLoopAfterCommand
    /\ LastCommand.commandType = "BORDER"
    /\ LastCommand.boundingBox = Box(24, 0, 32, 48)
    /\ stepClip = [x |-> 2, y |-> 1, w |-> 4, h |-> 2]
    /\ frames = 1
    /\ StepWriteCells = {<<1, 3>>, <<2, 3>>, <<2, 4>>, <<2, 5>>}
    /\ stdscr[<<1, 3>>].ch = GLYPH_VLINE
    /\ stdscr[<<2, 3>>].ch = GLYPH_BL_SQUARE
    /\ stdscr[<<2, 5>>].ch = GLYPH_HLINE

\* The 8-colour quantisation with a channel of 128 or more counting as set.
AtLeastMidpoint(color) ==
    LET r == color.r >= 128
        g == color.g >= 128
        b == color.b >= 128
    IN  IF r /\ g /\ b THEN COLOR_WHITE
        ELSE IF ~r /\ ~g /\ ~b THEN COLOR_BLACK
        ELSE IF r /\ g THEN COLOR_YELLOW
        ELSE IF r /\ b THEN COLOR_MAGENTA
        ELSE IF g /\ b THEN COLOR_CYAN
        ELSE IF r THEN COLOR_RED
        ELSE IF g THEN COLOR_GREEN
        ELSE COLOR_BLUE

\* C27: on a terminal of fewer than 256 colours the colour id a command
\* draws with is its colour thresholded per channel at 128, a channel of 128
\* or more counting as set: one of the 8 standard colours, whatever the
\* alpha.
C27_QuantizeAtMidpoint ==
    (InLoopAfterCommand /\ COLORS < 256 /\ lastPairCall # <<>>)
    => lastPairCall[1].fg = AtLeastMidpoint(LastCommand.color)

\* The cell that contains the pixel coordinate px, for cells of the given
\* size: cell n spans the pixels [n * size, (n + 1) * size).
ContainingCell(px, size) == px \div size

\* C28: a box is drawn from the cell that contains its pixel origin, also
\* for a negative origin, with its width and height in cells taken on their
\* own as pixel extent / cell size without rounding: under the full-screen
\* clip a Rectangle visits exactly those cells that are on the screen.
C28_OriginMapsToContainingCell ==
    (InLoopAfterCommand /\ LastCommand.commandType = "RECTANGLE"
     /\ stepClip = CellRect(FullScreenBox(termW, termH)))
    => stepReads =
         RectCells([x |-> ContainingCell(LastCommand.boundingBox.x,
                                         CLAY_NCURSES_CELL_WIDTH),
                    y |-> ContainingCell(LastCommand.boundingBox.y,
                                         CLAY_NCURSES_CELL_HEIGHT),
                    w |-> CellX(LastCommand.boundingBox.width),
                    h |-> CellY(LastCommand.boundingBox.height)])
           \cap Cells(termW, termH)

\* C29: after a Rectangle or Border command every cell it covers inside the
\* clip shows the glyph and the colour pair the command draws with, and
\* every cell a Text command writes carries its pair: no glyph and no colour
\* of an earlier command or frame survives in a covered cell.
C29_NoStaleCell ==
    (InLoopAfterCommand /\ lastPairCall # <<>>)
    => IF LastCommand.commandType = "RECTANGLE"
       THEN \A p \in RectCells(CellRect(LastCommand.boundingBox))
                       \cap RectCells(stepClip) :
               stdscr[p] = [ch |-> SPACE, pair |-> lastPairCall[1].id]
       ELSE IF LastCommand.commandType = "BORDER"
       THEN \A p \in Perimeter(CellRect(LastCommand.boundingBox))
                       \cap RectCells(stepClip) :
               stdscr[p] =
                 [ch |-> BorderGlyph(CellRect(LastCommand.boundingBox),
                                     LastCommand.cornerRadius, p),
                  pair |-> lastPairCall[1].id]
       ELSE \A k \in 1 .. Len(stepWrites) :
               stepWrites[k].pair = lastPairCall[1].id

\* The clip stack after the command cmd, and after the first n commands of
\* a list processed from the stack "start".
ClipStep(cmd, prev) ==
    IF cmd.commandType = "SCISSOR_START"
      THEN ScissorStartCase(prev.stack, prev.index, cmd.boundingBox)
    ELSE IF cmd.commandType = "SCISSOR_END"
      THEN ScissorEndCase(prev.stack, prev.index)
    ELSE prev

RECURSIVE ClipAfter(_, _, _)
ClipAfter(cmds, n, start) ==
    IF n = 0 THEN start
    ELSE ClipStep(cmds[n], ClipAfter(cmds, n - 1, start))

\* The position of the ScissorStart that the ScissorEnd at position n of a
\* list closes (0 when it closes none): the nearest ScissorStart before it
\* that no ScissorEnd in between closes.
RECURSIVE MatchFrom(_, _, _)
MatchFrom(cmds, j, closed) ==
    IF j = 0 THEN 0
    ELSE IF cmds[j].commandType = "SCISSOR_END"
      THEN MatchFrom(cmds, j - 1, closed + 1)
    ELSE IF cmds[j].commandType = "SCISSOR_START"
      THEN (IF closed = 0 THEN j ELSE MatchFrom(cmds, j - 1, closed - 1))
    ELSE MatchFrom(cmds, j - 1, closed)

MatchingStart(cmds, n) == MatchFrom(cmds, n - 1, 0)

ActiveClip(clip) == clip.stack[clip.index]

\* C30: the clip active right after a ScissorEnd is the clip that was active
\* right before the ScissorStart it closes, at every nesting depth, also in
\* lists nested deeper than the clip stack holds.
C30_EndRestoresClipBeforeStart ==
    (InLoopAfterCommand /\ LastCommand.commandType = "SCISSOR_END"
     /\ MatchingStart(renderCommands, i) > 0)
    => _scissorStack[_scissorStackIndex]
         = ActiveClip(ClipAfter(renderCommands,
                                MatchingStart(renderCommands, i) - 1,
                                ResetClip(ZeroStack, 0, termW, termH)))

\* The columns taken by the first n codepoints of the wide text w, a
\* codepoint of negative width counting as 0 (lines 217-218).
RECURSIVE ColumnsOf(_, _)
ColumnsOf(w, n) ==
    IF n = 0 THEN 0
    ELSE ColumnsOf(w, n - 1) + Max(Wcwidth(w[n]), 0)

\* C31: each codepoint a Text command draws stands in the row of the
\* command at column x + c, x the cell x of the command and c the columns
\* taken by the codepoints before it in the text, also when the run is
\* clipped on the left.
C31_TextColumnPlacement ==
    (InLoopAfterCommand /\ LastCommand.commandType = "TEXT"
     /\ Mbstowcs(LastCommand.text).ok)
    => \A k \in 1 .. Len(stepWrites) :
          stepWrites[k].ch # WIDE_EXT
          => \E j \in 1 .. Len(Mbstowcs(LastCommand.text).w) :
                /\ Mbstowcs(LastCommand.text).w[j] = stepWrites[k].ch
                /\ stepWrites[k].row = CellY(LastCommand.boundingBox.y)
                /\ stepWrites[k].col
                     = CellX(LastCommand.boundingBox.x)
                       + ColumnsOf(Mbstowcs(LastCommand.text).w, j - 1)

\* A clip entry of no extent, and two pixel boxes that share no area.
EmptyBox(b) == b.width <= 0 \/ b.height <= 0

NoOverlap(a, b) ==
    \/ a.x + a.width <= b.x
    \/ b.x + b.width <= a.x
    \/ a.y + a.height <= b.y
    \/ b.y + b.height <= a.y

\* C32: a ScissorStart whose box does not overlap the current clip pushes an
\* empty region; while the region on top of the clip stack is empty, no
\* command writes a cell, and a region pushed on top of it is empty too.
C32_EmptyClipDrawsNothing ==
    [][ (pc = "loop" /\ i' = i + 1)
        => /\ (renderCommands[i + 1].commandType = "SCISSOR_START"
               /\ _scissorStackIndex' = _scissorStackIndex + 1
               /\ NoOverlap(renderCommands[i + 1].boundingBox,
                            _scissorStack[_scissorStackIndex]))
              => EmptyBox(_scissorStack'[_scissorStackIndex'])
           /\ EmptyBox(_scissorStack[_scissorStackIndex])
              => /\ stepWrites' = <<>>
                 /\ stdscr' = stdscr
                 /\ (_scissorStackIndex' >= _scissorStackIndex)
                    => EmptyBox(_scissorStack'[_scissorStackIndex'])
      ]_vars

\* A rectangle has been skipped under a clip pushed on top of the empty
\* region, after a rectangle, a text and a border that were skipped under
\* the empty region itself: the frame has written nothing so far.
C32_Witness ==
    /\ InLoopAfterCommand
    /\ renderCommands = EmptyClipList
    /\ i = 7
    /\ _scissorStackIndex = 3
    /\ _scissorStack[2].width < 0
    /\ EmptyBox(_scissorStack[3])
    /\ frameWrites = 0

=============================================================================
